---- MODULE Spec2Model ----
(***************************************************************************)
(* Fee-cell allocator (Paymaster) of btc-assets-api,                       *)
(* src/src/services/unlocker.ts lines 297-451.                             *)
(*                                                                         *)
(* The Paymaster keeps its pool in a BullMQ queue that lives in a shared   *)
(* Redis: this.queue (a Queue handle) and this.worker (a Worker handle     *)
(* without processor, used for manual fetching) address the same keys.     *)
(* Every `await` of the code is a step of its own here; what runs between  *)
(* two awaits is atomic, as it is on the single JavaScript thread.         *)
(***************************************************************************)
EXTENDS Integers, Sequences, FiniteSets, TLC

\* ---- bounds of the model ----
NumOutpoints == 3
NumTokens == 2
NumSlots == 2
\* process instances; the calls in progress of one instance share its
\* refilling flag, and all instances share the pool
NumInstances == 1
MaxInputs == 2
MaxCells == 3
\* UNLOCKER_CELL_BATCH_SIZE (100 in the example environment)
UNLOCKER_CELL_BATCH_SIZE == 2

\* ---- configuration of the Paymaster (env) ----
\* PAYMASTER_CELL_PRESET_COUNT
presetCount == 2
\* PAYMASTER_CELL_REFILL_THRESHOLD, "default is 0.3", as the fraction Num / Den
refillThresholdNum == 3
refillThresholdDen == 10

\* Transaction queue: the workers of all process instances, the configured
\* delay and backoff in clock ticks
NumWorkers == 2
TRANSACTION_QUEUE_JOB_DELAY == 2
Backoff == 1
\* the configured attempt ceiling
TRANSACTION_QUEUE_JOB_ATTEMPTS == 6

Workers == 1..NumWorkers

\* CKB client: the polls of waitForTranscationConfirmed that are counted
MaxPolls == 4

\* Cron handler: the function's maxDuration and the 10 s margin in clock
\* ticks of 10 s, and the jobs the handler is told about
MaxDuration == 3
Margin == 1
MaxActive == 2

Outpoints == 1..NumOutpoints
Tokens == 1..NumTokens
Slots == 1..NumSlots
Instances == 1..NumInstances

\* `undefined` for a job, and the absence of a lock token
None == 0
NoToken == 0

VARIABLES
    chain,      \* indexer view of the cells with the paymaster lock and capacity
    queue,      \* the BullMQ queue in Redis: job ids, wait list, active, completed, locks
    refilling,  \* Paymaster.refilling of every process instance
    call,       \* the asynchronous calls in progress, one record per slot
    ret,        \* what the call that settled in the last step handed to its caller
    leases,     \* history: <<token, outpoint>> grants not yet retired
    retired,    \* history: outpoints that makePaymasterCellAsSpent completed
    unlocker,   \* the Unlocker: the chains it reads and its call in progress
    txq,        \* the transaction queue: its jobs and the workers' attempts
    cron,       \* the process-transactions cron handler: its invocation in progress
    client      \* the CKB client: its call in progress

vars == <<chain, queue, refilling, call, ret, leases, retired, unlocker, txq, cron, client>>

\* the state of the transaction queue, the cron handler and the CKB client
svars == <<txq, cron, client>>

\* the state of the Paymaster and its pool
pvars == <<chain, queue, refilling, call, ret, leases, retired>>

\* ---------------------------------------------------------------------------
\* The queue store (BullMQ primitives used by the Paymaster)
\* ---------------------------------------------------------------------------

EmptyQueue ==
    [ids |-> {}, wait |-> <<>>, active |-> {}, completed |-> {},
     lock |-> [o \in Outpoints |-> NoToken]]

RECURSIVE SeqToSet(_)
SeqToSet(s) == IF s = <<>> THEN {} ELSE {Head(s)} \cup SeqToSet(Tail(s))

\* this.queue.getWaitingCount()
getWaitingCount(q) == Len(q.wait)

\* count < this.presetCount * this.refillThreshold
NeedRefill(count) == count * refillThresholdDen < presetCount * refillThresholdNum

\* an add that does not look for an existing job id
QueueAdd_noDedup(q, id) ==
    [q EXCEPT !.ids = @ \cup {id}, !.wait = Append(@, id)]

\* this.queue.add(name, cell, { jobId }): a job id that already exists is ignored
QueueAdd(q, id) ==
    IF id \in q.ids THEN q
    ELSE [q EXCEPT !.ids = @ \cup {id}, !.wait = Append(@, id)]

\* a fetch that reads the oldest waiting job and locks it, but leaves it in
\* the wait list
getNextJob_peek(q, token) ==
    IF q.wait = <<>> THEN [job |-> None, queue |-> q]
    ELSE LET id == Head(q.wait) IN
         [job |-> id,
          queue |-> [q EXCEPT !.active = @ \cup {id}, !.lock[id] = token]]

\* a fetch that takes the job out of the store altogether
getNextJob_consume(q, token) ==
    IF q.wait = <<>> THEN [job |-> None, queue |-> q]
    ELSE LET id == Head(q.wait) IN
         [job |-> id,
          queue |-> [q EXCEPT !.wait = Tail(@), !.ids = @ \ {id}]]

\* this.worker.getNextJob(token): atomically moves the oldest waiting job to
\* active and locks it with the token; undefined when nothing is waiting
getNextJob(q, token) ==
    IF q.wait = <<>> THEN [job |-> None, queue |-> q]
    ELSE LET id == Head(q.wait) IN
         [job |-> id,
          queue |-> [q EXCEPT !.wait = Tail(@), !.active = @ \cup {id},
                              !.lock[id] = token]]

\* a completion that deletes the job and its id (what removeOnComplete
\* { count: 0 } would do if it governed this job handle)
moveToCompleted_remove(q, id, token) ==
    IF q.lock[id] # token \/ id \notin q.active
    THEN [ok |-> FALSE, next |-> None, queue |-> q]
    ELSE LET done == [q EXCEPT !.active = @ \ {id}, !.ids = @ \ {id},
                               !.lock[id] = NoToken]
             r == getNextJob(done, token)
         IN [ok |-> TRUE, next |-> r.job, queue |-> r.queue]

\* job.moveToCompleted(null, token) on a job handle obtained from this.queue:
\* it needs the job's lock to be held by the token and the job to be active;
\* the job then moves to the completed set (the handle belongs to the Queue,
\* which was constructed with `connection` only, so the job's key is kept),
\* and, fetchNext being true by default, the next waiting job is moved to
\* active under the same token.
moveToCompleted(q, id, token) ==
    IF q.lock[id] # token \/ id \notin q.active
    THEN [ok |-> FALSE, next |-> None, queue |-> q]
    ELSE LET done == [q EXCEPT !.active = @ \ {id}, !.completed = @ \cup {id},
                               !.lock[id] = NoToken]
             r == getNextJob(done, token)
         IN [ok |-> TRUE, next |-> r.job, queue |-> r.queue]

\* ---------------------------------------------------------------------------
\* Calls
\* ---------------------------------------------------------------------------

Idle ==
    [op |-> "idle", pc |-> "idle", inst |-> 1, token |-> NoToken,
     count |-> 0, queueSize |-> 0, filled |-> 0, cursor |-> 0,
     inputs |-> <<>>, added |-> 0, dup |-> 0, all |-> <<>>, repeat |-> FALSE]

NoRet ==
    [op |-> "none", job |-> None, err |-> "", nested |-> FALSE,
     warned |-> FALSE, count |-> 0, queueSize |-> 0, filled |-> 0, added |-> 0, dup |-> 0,
     token |-> NoToken, inputs |-> <<>>, repeat |-> FALSE]

\* the Unlocker at rest: the BTC time lock cells the indexer reports, in the
\* collector's order, the Bitcoin tip height, and no call in progress
\* (spent: the cells an unlock transaction has consumed; pending: the cells of
\* the unlock transactions broadcast and not yet committed; prev: history, the
\* batch of the last run against the present chain state)
UnlockerAtRest(cells, blocks) ==
    [cells |-> cells, tip |-> blocks, op |-> "idle", pc |-> "idle", blocks |-> 0,
     cursor |-> 0, batch |-> <<>>, warned |-> {}, built |-> FALSE, txs |-> <<>>,
     signed |-> 0, sent |-> 0, result |-> <<>>,
     spent |-> {}, pending |-> {}, prev |-> <<>>]

\* a settlement token without a job, and a worker without an attempt
NoJob ==
    [state |-> "none", payload |-> "", delay |-> 0, wait |-> 0, age |-> 0,
     attempts |-> 0, started |-> 0]

IdleWorker == [pc |-> "idle", token |-> NoToken, log |-> <<>>, failedAt |-> ""]

\* the transaction queue with no job and no attempt in progress
TxqAtRest ==
    [jobs |-> [t \in Tokens |-> NoJob], work |-> [w \in Workers |-> IdleWorker],
     last |-> [op |-> "", token |-> NoToken]]

\* the cron handler before an invocation, the function's maxDuration given
CronAtRest(maxDuration, unit) ==
    [maxDuration |-> maxDuration, unit |-> unit, pc |-> "idle",
     startProcess |-> "none", timer |-> "none", delay |-> 0, elapsed |-> 0,
     pauseProcess |-> "none", closeProcess |-> "none",
     settledBy |-> "", pausedAt |-> 0, active |-> 0]

\* the CKB client with no call in progress
ClientAtRest ==
    [op |-> "idle", pc |-> "idle", thrown |-> <<>>, error |-> <<>>,
     captured |-> FALSE, status |-> "", polls |-> 0, rpcFails |-> 0,
     txHash |-> "", resolved |-> <<>>]

ServicesAtRest ==
    /\ txq = TxqAtRest
    /\ cron = CronAtRest(0, "ms")
    /\ client = ClientAtRest

PaymasterInit ==
    /\ chain = [o \in Outpoints |-> "live"]
    /\ queue = EmptyQueue
    /\ refilling = [i \in Instances |-> FALSE]
    /\ call = [s \in Slots |-> Idle]
    /\ ret = NoRet
    /\ leases = {}
    /\ retired = {}

Init ==
    /\ PaymasterInit
    /\ unlocker = UnlockerAtRest(<<>>, 0)
    /\ ServicesAtRest

\* the call of slot s settles: its slot is free again
Settle(s, r) ==
    /\ call' = [call EXCEPT ![s] = Idle]
    /\ ret' = r

\* the call of slot s goes on to its next await
Continue(s, c) ==
    /\ call' = [call EXCEPT ![s] = c]
    /\ ret' = NoRet

\* getNextCellJob(token), called directly or from appendCellAndSignTx:
\* if (!this.refilling) { const count = await this.queue.getWaitingCount() ... }
StartGetNextCellJob(s, i) ==
    /\ UNCHANGED <<unlocker, svars>>
    /\ ret = NoRet
    /\ call[s].pc = "idle"
    /\ call' = [call EXCEPT ![s] = [Idle EXCEPT !.op = "getNextCellJob", !.inst = i,
                    !.pc = IF refilling[i] THEN "getNextJob" ELSE "getWaitingCount"]]
    /\ UNCHANGED <<chain, queue, refilling, leases, retired>>
    /\ ret' = NoRet

\* a comparison that also holds when the target is just met
FilledShort_atMost(filled, count) == filled + count <= presetCount

\* filled + count < this.presetCount
FilledShort(filled, count) == filled + count < presetCount

\* refillCellQueue returns `filled`; inside getNextCellJob the caller goes on:
\* if (filled + count < this.presetCount) { warn; captureException }; this.refilling = false
RefillReturn(s, c) ==
    LET r == [NoRet EXCEPT !.op = "refillCellQueue", !.queueSize = c.queueSize,
                           !.filled = c.filled, !.added = c.added, !.dup = c.dup]
    IN IF c.op = "refillCellQueue"
       THEN /\ Settle(s, r)
            /\ UNCHANGED refilling
       ELSE /\ call' = [call EXCEPT ![s] = [Idle EXCEPT !.op = c.op, !.inst = c.inst,
                                                        !.pc = "getNextJob"]]
            /\ refilling' = [refilling EXCEPT ![c.inst] = FALSE]
            /\ ret' = [r EXCEPT !.nested = TRUE, !.count = c.count,
                                !.warned = FilledShort(c.filled, c.count)]

\* const count = await this.queue.getWaitingCount(); if (count < ...) { refilling = true; refillCellQueue() }
CountWaiting(s) ==
    /\ UNCHANGED <<unlocker, svars>>
    /\ ret = NoRet
    /\ call[s].pc = "getWaitingCount"
    /\ LET count == getWaitingCount(queue) IN
       IF NeedRefill(count)
       THEN /\ refilling' = [refilling EXCEPT ![call[s].inst] = TRUE]
            /\ call' = [call EXCEPT ![s].count = count, ![s].pc = "queueSize"]
       ELSE /\ call' = [call EXCEPT ![s].count = count, ![s].pc = "getNextJob"]
            /\ UNCHANGED refilling
    /\ UNCHANGED <<chain, queue, leases, retired>>
    /\ ret' = NoRet

\* refillCellQueue() called on its own
StartRefillCellQueue(s) ==
    /\ UNCHANGED <<unlocker, svars>>
    /\ ret = NoRet
    /\ call[s].pc = "idle"
    /\ call' = [call EXCEPT ![s] = [Idle EXCEPT !.op = "refillCellQueue", !.pc = "queueSize"]]
    /\ UNCHANGED <<chain, queue, refilling, leases, retired>>
    /\ ret' = NoRet

\* const queueSize = await this.queue.getWaitingCount(); ... if (queueSize >= presetCount) return filled
RefillQueueSize(s) ==
    /\ UNCHANGED <<unlocker, svars>>
    /\ ret = NoRet
    /\ call[s].pc = "queueSize"
    /\ LET c == [call[s] EXCEPT !.queueSize = getWaitingCount(queue), !.filled = 0,
                                !.cursor = 0] IN
       IF c.queueSize >= presetCount
       THEN RefillReturn(s, c)
       ELSE /\ call' = [call EXCEPT ![s] = [c EXCEPT !.pc = "collect"]]
            /\ ret' = NoRet /\ UNCHANGED refilling
    /\ UNCHANGED <<chain, queue, leases, retired>>

\* this.cellCapacity (PAYMASTER_CELL_CAPACITY, in units of 10^8 shannons)
cellCapacity == 316

\* the cells of the ledger that are no fee cells: one shannon unit above and
\* one below the fee-cell capacity under the paymaster lock, and one of the
\* fee-cell capacity under another lock; they are never spent
ForeignOutpoints == (NumOutpoints + 1)..(NumOutpoints + 3)

LedgerCell(o) ==
    IF o \in Outpoints THEN [lock |-> "paymaster", capacity |-> cellCapacity]
    ELSE IF o = NumOutpoints + 1 THEN [lock |-> "paymaster", capacity |-> cellCapacity + 1]
    ELSE IF o = NumOutpoints + 2 THEN [lock |-> "paymaster", capacity |-> cellCapacity - 1]
    ELSE [lock |-> "other", capacity |-> cellCapacity]

\* outputCapacityRange: [cellCapacity, cellCapacity + 1]
outputCapacityRange == <<cellCapacity, cellCapacity + 1>>

\* a range that includes its upper end
InRange_inclusive(capacity, range) == range[1] <= capacity /\ capacity <= range[2]

\* the indexer's range: from the lower end up to, not including, the upper
InRange(capacity, range) == range[1] <= capacity /\ capacity < range[2]

\* the collector's query: lock: this.lockScript, outputCapacityRange
Matches(o) ==
    /\ LedgerCell(o).lock = "paymaster"
    /\ InRange(LedgerCell(o).capacity, outputCapacityRange)

\* the collector yields the live cells that match its query, in the indexer's
\* order, lazily
NextCell(ch, cursor) ==
    LET rest == {o \in Outpoints \cup ForeignOutpoints :
                    /\ o > cursor
                    /\ o \in Outpoints => ch[o] = "live"
                    /\ Matches(o)} IN
    IF rest = {} THEN None ELSE CHOOSE o \in rest : \A p \in rest : o <= p

\* a count of the jobs that are new only
CountFilled_newOnly(filled, isNew) == IF isNew THEN filled + 1 ELSE filled

\* filled += 1
CountFilled(filled, isNew) == filled + 1

\* a test that lets one more cell through
RefillEnough_over(queueSize, filled) == queueSize + filled > presetCount

\* if (queueSize + filled >= this.presetCount) break
RefillEnough(queueSize, filled) == queueSize + filled >= presetCount

\* for await (const cell of cells) { await this.queue.add(...); filled += 1; if (...) break }
\* one pass of the loop, or its end when the collector is exhausted
Collect(s) ==
    /\ UNCHANGED <<unlocker, svars>>
    /\ ret = NoRet
    /\ call[s].pc = "collect"
    /\ LET id == NextCell(chain, call[s].cursor)
           new == id \notin queue.ids
           c == [call[s] EXCEPT !.filled = CountFilled(@, new), !.cursor = id,
                                !.added = IF new THEN @ + 1 ELSE @,
                                !.dup = IF new THEN @ ELSE @ + 1]
       IN IF id = None
          THEN /\ RefillReturn(s, call[s])
               /\ UNCHANGED queue
          ELSE /\ queue' = QueueAdd(queue, id)
               /\ IF RefillEnough(c.queueSize, c.filled)
                  THEN RefillReturn(s, c)
                  ELSE /\ call' = [call EXCEPT ![s] = c]
                       /\ ret' = NoRet /\ UNCHANGED refilling
    /\ UNCHANGED <<chain, leases, retired>>

\* the indexer RPC rejects: refillCellQueue throws, and so does a getNextCellJob
\* that called it (this.refilling keeps its value)
CollectFail(s) ==
    /\ UNCHANGED <<unlocker, svars>>
    /\ ret = NoRet
    /\ call[s].pc = "collect"
    /\ Settle(s, [NoRet EXCEPT !.op = call[s].op, !.err = "RpcError"])
    /\ UNCHANGED <<chain, queue, refilling, leases, retired>>

\* const job = await this.worker.getNextJob(token); return job
\* called directly, the job (or undefined) is the result.  The token, an
\* argument of getNextCellJob, is used here for the first time, so the model
\* draws it in this step.
Lease(s, t) ==
    /\ UNCHANGED <<unlocker, svars>>
    /\ ret = NoRet
    /\ call[s].pc = "getNextJob"
    /\ LET r == getNextJob(queue, t) IN
       /\ queue' = r.queue
       /\ leases' = IF r.job = None THEN leases ELSE leases \cup {<<t, r.job>>}
       /\ Settle(s, [NoRet EXCEPT !.op = "getNextCellJob", !.job = r.job])
    /\ UNCHANGED <<chain, refilling, retired>>

\* called from appendCellAndSignTx:
\*   const { data: cell } = await this.getNextCellJob(token);   (TypeError on undefined)
\*   const signedTx = await appendPaymasterCellAndSignCkbTx(...); return signedTx
\* the signing itself succeeds or throws
LeaseAndSign(s, t, signed) ==
    /\ UNCHANGED <<unlocker, svars>>
    /\ ret = NoRet
    /\ call[s].pc = "getNextJob"
    /\ LET r == getNextJob(queue, t) IN
       /\ r.job = None => signed
       /\ queue' = r.queue
       /\ leases' = IF r.job = None THEN leases ELSE leases \cup {<<t, r.job>>}
       /\ Settle(s, [NoRet EXCEPT !.op = "appendCellAndSignTx", !.job = r.job,
                                  !.err = IF r.job = None THEN "TypeError"
                                          ELSE IF signed THEN "" ELSE "SignError"])
    /\ UNCHANGED <<chain, refilling, retired>>

\* the fee-cell inputs a signed transaction can carry
RECURSIVE NoRepeat(_)
NoRepeat(s) == s = <<>> \/ (Head(s) \notin SeqToSet(Tail(s)) /\ NoRepeat(Tail(s)))

InputLists ==
    {s \in UNION {[1..n -> Outpoints] : n \in 1..MaxInputs} : NoRepeat(s)}

\* what makePaymasterCellAsSpent(token, signedTx) hands back: nothing, or the
\* exception of moveToCompleted; the caller of a first call that succeeded
\* keeps the arguments it passed
SpentRet(err, t, all, repeat) ==
    IF err = "" /\ ~repeat
    THEN [NoRet EXCEPT !.op = "makePaymasterCellAsSpent", !.token = t, !.inputs = all]
    ELSE [NoRet EXCEPT !.op = "makePaymasterCellAsSpent", !.err = err, !.repeat = repeat]

\* one pass of the loop of makePaymasterCellAsSpent, for the call of slot s
\* with the inputs still to visit (all: the inputs of signedTx; repeat: the
\* call repeats the one that has just succeeded with the same arguments):
\*   const job = await this.queue.getJob(id); if (job) await job.moveToCompleted(null, token)
\* expired: the job's lock key has expired meanwhile (lockDuration has passed
\* since the lease and nothing renews the lock), so that moveToCompleted throws
SpentPass(s, t, inputs, all, repeat, expired) ==
    LET id == Head(inputs)
        rest == Tail(inputs)
        r == moveToCompleted(queue, id, t)
        Go == IF rest = <<>>
              THEN Settle(s, SpentRet("", t, all, repeat))
              ELSE Continue(s, [Idle EXCEPT !.op = "makePaymasterCellAsSpent",
                                            !.token = t, !.inputs = rest, !.pc = "getJob",
                                            !.all = IF repeat THEN <<>> ELSE all,
                                            !.repeat = repeat])
    IN /\ expired => (id \in queue.ids /\ r.ok)
       /\ IF id \notin queue.ids
          THEN /\ Go
               /\ UNCHANGED <<queue, leases, retired>>
          ELSE IF expired \/ ~r.ok
          THEN /\ Settle(s, SpentRet("JobLockError", t, all, repeat))
               /\ UNCHANGED <<queue, leases, retired>>
          ELSE /\ Go
               /\ queue' = r.queue
               /\ retired' = retired \cup {id}
               /\ leases' = {l \in leases : l[2] # id} \cup
                            (IF r.next = None THEN {} ELSE {<<t, r.next>>})

\* makePaymasterCellAsSpent(token, signedTx), up to the end of its first pass
StartMakePaymasterCellAsSpent(s, t, inputs, expired) ==
    /\ UNCHANGED <<unlocker, svars>>
    /\ ret = NoRet
    /\ call[s].pc = "idle"
    /\ SpentPass(s, t, inputs, inputs, FALSE, expired)
    /\ UNCHANGED <<chain, refilling>>

\* the caller whose makePaymasterCellAsSpent has just succeeded calls it again
\* with the same token and the same signedTx (up to the end of the first pass)
RepeatMakePaymasterCellAsSpent(s) ==
    /\ UNCHANGED <<unlocker, svars>>
    /\ ret.op = "makePaymasterCellAsSpent" /\ ret.err = "" /\ ~ret.repeat
    /\ call[s].pc = "idle"
    /\ SpentPass(s, ret.token, ret.inputs, ret.inputs, TRUE, FALSE)
    /\ UNCHANGED <<chain, refilling>>

\* the later passes
SpentInput(s, expired) ==
    /\ UNCHANGED <<unlocker, svars>>
    /\ ret = NoRet
    /\ call[s].pc = "getJob"
    /\ SpentPass(s, call[s].token, call[s].inputs, call[s].all, call[s].repeat, expired)
    /\ UNCHANGED <<chain, refilling>>

\* the chain: the transaction that carries a leased cell is committed and
\* consumes it (the Unlocker funds its transactions from cells below the
\* paymaster capacity, lines 153-156, so nothing else spends a pool cell)
ChainSpend(o) ==
    /\ UNCHANGED <<unlocker, svars>>
    /\ ret = NoRet
    /\ chain[o] = "live"
    /\ o \in queue.active \cup queue.completed
    /\ chain' = [chain EXCEPT ![o] = "dead"]
    /\ UNCHANGED <<queue, refilling, call, leases, retired>>
    /\ ret' = NoRet

\* the caller takes the result or the exception of the call that just settled
TakeResult ==
    /\ UNCHANGED <<unlocker, svars>>
    /\ ret # NoRet
    /\ ret' = NoRet
    /\ UNCHANGED <<chain, queue, refilling, call, leases, retired>>

\* the steps of the call in progress in slot s
StepOf(s) ==
    \/ CountWaiting(s)
    \/ RefillQueueSize(s)
    \/ Collect(s)
    \/ CollectFail(s)
    \/ \E t \in Tokens : Lease(s, t)
    \/ \E t \in Tokens, signed \in BOOLEAN : LeaseAndSign(s, t, signed)
    \/ \E expired \in BOOLEAN : SpentInput(s, expired)

\* a client starts a call in slot s
StartOf(s) ==
    \/ \E i \in Instances : StartGetNextCellJob(s, i)
    \/ StartRefillCellQueue(s)
    \/ \E t \in Tokens, inputs \in InputLists, expired \in BOOLEAN :
          StartMakePaymasterCellAsSpent(s, t, inputs, expired)
    \/ RepeatMakePaymasterCellAsSpent(s)

Next ==
    \/ \E s \in Slots : StartOf(s)
    \/ \E s \in Slots : StepOf(s)
    \/ \E o \in Outpoints : ChainSpend(o)
    \/ TakeResult

Spec == Init /\ [][Next]_vars

\* calls issued one after the other: a call starts, and the chain changes,
\* only while no call is in progress
Busy == {s \in Slots : call[s].pc # "idle"}

SeqNext ==
    \/ Busy = {} /\ \E s \in Slots, i \in Instances : StartGetNextCellJob(s, i)
    \/ Busy = {} /\ \E s \in Slots : StartRefillCellQueue(s)
    \/ Busy = {} /\ \E s \in Slots, t \in Tokens, inputs \in InputLists,
                        expired \in BOOLEAN :
                         StartMakePaymasterCellAsSpent(s, t, inputs, expired)
    \/ Busy = {} /\ \E s \in Slots : RepeatMakePaymasterCellAsSpent(s)
    \/ Busy = {} /\ \E o \in Outpoints : ChainSpend(o)
    \/ \E s \in Slots : StepOf(s)
    \/ TakeResult

SeqSpec == Init /\ [][SeqNext]_vars

\* every call in progress runs on to its next await (the event loop resumes a
\* continuation once its I/O has completed), and a settled result is taken;
\* nothing obliges a client to start a call
FairSeqSpec ==
    SeqSpec /\ WF_vars(TakeResult) /\ \A s \in Slots : WF_vars(StepOf(s))

\* ---------------------------------------------------------------------------
\* The Unlocker (src/src/services/unlocker.ts lines 31-189)
\* ---------------------------------------------------------------------------

\* the type script of a BTC time lock cell: none, one the SDK does not
\* support, an xUDT, or a spore / cluster
TypeKinds == {"none", "other", "xudt", "spore"}

\* BTC_JUMP_CONFIRMATION_BLOCKS of @rgbpp-sdk/ckb
BTC_JUMP_CONFIRMATION_BLOCKS == 6

\* `after` of the lock args, and the block height of the referenced Bitcoin
\* transaction (0: btcTx.status.block_height is undefined, not confirmed)
Afters == {2, 6}
TipHeight == 800000
Heights == {0, 799990, 799994, 799996}

LockCells == [type : TypeKinds, after : Afters, height : Heights]

CellLists == UNION {[1..n -> LockCells] : n \in 0..MaxCells}

\* isUDTTypeSupported(type, isMainnet)
isUDTTypeSupported(type) == type = "xudt"

\* isClusterSporeTypeSupported(type, isMainnet)
isClusterSporeTypeSupported(type) == type = "spore"

\* an admission that only asks for a type script
isTypeAssetSupported_any(type) == TRUE

\* isTypeAssetSupported(type, isMainnet)
isTypeAssetSupported(type) == isUDTTypeSupported(type) \/ isClusterSporeTypeSupported(type)

\* !cell.cellOutput.type || !isTypeAssetSupported(cell.cellOutput.type, ...)  -> continue
Admitted(c) == c.type # "none" /\ isTypeAssetSupported(c.type)

\* a test that asks for the confirmation only
Confirmed_anyDepth(blocks, c) == c.height # 0

\* !blockHeight || blocks - blockHeight < after  -> continue
Confirmed(blocks, c) == ~(c.height = 0 \/ blocks - c.height < c.after)

\* after < BTC_JUMP_CONFIRMATION_BLOCKS
SmallConfirmations(c) == c.after < BTC_JUMP_CONFIRMATION_BLOCKS

\* a push that leaves out the cells it warned about
PushCell_delaySmall(batch, i, small) == IF small THEN batch ELSE Append(batch, i)

\* cells.push({...}), reached with or without the warning
PushCell(batch, i, small) == Append(batch, i)

\* a test that lets one more cell in
BatchFull_over(batch) == Len(batch) > UNLOCKER_CELL_BATCH_SIZE

\* cells.length >= this.cradle.env.UNLOCKER_CELL_BATCH_SIZE  -> break
BatchFull(batch) == Len(batch) >= UNLOCKER_CELL_BATCH_SIZE

\* a test that never returns early
NothingToUnlock_never(batch) == FALSE

\* cells.length === 0  -> return []
NothingToUnlock(batch) == Len(batch) = 0

\* cells.filter((cell) => isUDTTypeSupported(cell.output.type!, ...)), as the
\* sequence of the indices kept
udtTypeCells(batch, cells) ==
    LET keep(i) == isUDTTypeSupported(cells[i].type) IN SelectSeq(batch, keep)

\* cells.filter((cell) => isClusterSporeTypeSupported(cell.output.type!, ...))
sporeTypeCells(batch, cells) ==
    LET keep(i) == isClusterSporeTypeSupported(cells[i].type) IN SelectSeq(batch, keep)

\* a builder that pushes a transaction for an empty partition as well
BuildTxs_always(batch, cells) ==
    <<[kind |-> "xudt", cells |-> udtTypeCells(batch, cells)],
      [kind |-> "spore", cells |-> sporeTypeCells(batch, cells)]>>

\* buildSpentTxs(cells): one raw transaction for the UDT cells if there are
\* any, then one for the spore / cluster cells if there are any
BuildTxs(batch, cells) ==
    (IF Len(udtTypeCells(batch, cells)) > 0
     THEN <<[kind |-> "xudt", cells |-> udtTypeCells(batch, cells)]>> ELSE <<>>)
    \o (IF Len(sporeTypeCells(batch, cells)) > 0
        THEN <<[kind |-> "spore", cells |-> sporeTypeCells(batch, cells)]>> ELSE <<>>)

UnlockInit ==
    /\ PaymasterInit
    /\ unlocker \in {UnlockerAtRest(cs, TipHeight) : cs \in CellLists}
    /\ ServicesAtRest

\* getNextBatchLockCell() called on its own
StartGetNextBatchLockCell ==
    /\ unlocker.pc = "idle"
    /\ unlocker' = [unlocker EXCEPT !.op = "getNextBatchLockCell",
                                    !.pc = "getBlockchainInfo"]
    /\ UNCHANGED <<pvars, svars>>

\* unlockCells(): const cells = await this.getNextBatchLockCell()
StartUnlockCells ==
    /\ unlocker.pc = "idle"
    /\ unlocker' = [unlocker EXCEPT !.op = "unlockCells", !.pc = "getBlockchainInfo"]
    /\ UNCHANGED <<pvars, svars>>

\* const { blocks } = await this.cradle.bitcoin.getBlockchainInfo()
GetBlockchainInfo ==
    /\ unlocker.pc = "getBlockchainInfo"
    /\ unlocker' = [unlocker EXCEPT !.blocks = unlocker.tip, !.pc = "scan"]
    /\ UNCHANGED <<pvars, svars>>

\* getNextBatchLockCell returns `cells`; inside unlockCells the caller goes on:
\*   if (cells.length === 0) return [];  const ckbRawTxs = await this.buildSpentTxs(cells)
ReturnBatch(u) ==
    IF u.op = "getNextBatchLockCell" THEN [u EXCEPT !.pc = "done"]
    ELSE IF NothingToUnlock(u.batch) THEN [u EXCEPT !.pc = "done", !.result = <<>>]
    ELSE [u EXCEPT !.pc = "buildSpentTxs", !.built = TRUE]

\* a collector that yields the cells of a list it keeps
LiveCell_cached(u, i) == TRUE

\* this.collector.collect(): every call queries the indexer anew, which
\* reports live cells only
LiveCell(u, i) == i \notin u.spent

\* for await (const cell of collect) { ... }: one pass of the loop, or its end
ScanCell ==
    /\ unlocker.pc = "scan"
    /\ LET i == unlocker.cursor + 1
           u == [unlocker EXCEPT !.cursor = i]
       IN IF unlocker.cursor = Len(unlocker.cells)
          THEN unlocker' = ReturnBatch(unlocker)
          ELSE LET c == unlocker.cells[i] IN
               IF ~LiveCell(unlocker, i) \/ ~Admitted(c) \/ ~Confirmed(unlocker.blocks, c)
               THEN unlocker' = u
               ELSE LET small == SmallConfirmations(c)
                        v == [u EXCEPT !.warned = IF small THEN @ \cup {i} ELSE @,
                                       !.batch = PushCell(@, i, small)]
                    IN unlocker' = IF BatchFull(v.batch) THEN ReturnBatch(v) ELSE v
    /\ UNCHANGED <<pvars, svars>>

\* const ckbRawTxs = await this.buildSpentTxs(cells)
BuildSpentTxs ==
    /\ unlocker.pc = "buildSpentTxs"
    /\ unlocker' = [unlocker EXCEPT !.txs = BuildTxs(unlocker.batch, unlocker.cells),
                                    !.pc = "sendUnlockTx"]
    /\ UNCHANGED <<pvars, svars>>

\* const txhashs = await Promise.all(ckbRawTxs.map((ckbRawTx) => this.sendUnlockTx(ckbRawTx)))
\* each sendUnlockTx signs and broadcasts its transaction
SendUnlockTxs ==
    /\ unlocker.pc = "sendUnlockTx"
    /\ unlocker' = [unlocker EXCEPT !.signed = @ + Len(unlocker.txs),
                                    !.sent = @ + Len(unlocker.txs),
                                    !.pending = @ \cup SeqToSet(unlocker.batch),
                                    !.result = [k \in 1..Len(unlocker.txs) |-> unlocker.txs[k].kind],
                                    !.pc = "done"]
    /\ UNCHANGED <<pvars, svars>>

\* the cells of the transactions with the indices ks
CellsOfTxs(txs, ks) == UNION {SeqToSet(txs[k].cells) : k \in ks}

\* signing or broadcasting of at least one transaction rejects: Promise.all
\* rejects and unlockCells throws, while the sendUnlockTx calls of the
\* transactions in ok run to their end and broadcast
SendUnlockTxFail(ok) ==
    /\ unlocker.pc = "sendUnlockTx"
    /\ ok \subseteq 1..Len(unlocker.txs) /\ ok # 1..Len(unlocker.txs)
    /\ unlocker' = [unlocker EXCEPT !.signed = @ + Cardinality(ok),
                                    !.sent = @ + Cardinality(ok),
                                    !.pending = @ \cup CellsOfTxs(unlocker.txs, ok),
                                    !.pc = "failed"]
    /\ UNCHANGED <<pvars, svars>>

\* the Unlocker at rest after a run: nothing of the run is kept but what the
\* chain holds (history: the batch the run selected, if it came that far)
RestAfter(u) ==
    [UnlockerAtRest(u.cells, u.tip) EXCEPT
        !.spent = u.spent, !.pending = u.pending,
        !.prev = IF u.pc \in {"done", "buildSpentTxs", "sendUnlockTx", "failed"}
                 THEN <<u.batch>> ELSE u.prev]

\* the caller (the cron job) takes the result; the Unlocker is at rest again
TakeUnlockResult ==
    /\ unlocker.pc \in {"done", "failed"}
    /\ unlocker' = RestAfter(unlocker)
    /\ UNCHANGED <<pvars, svars>>

\* the process crashes or is interrupted in the middle of a run, and is
\* started again: a new Unlocker is constructed
CrashUnlocker ==
    /\ unlocker.pc \notin {"idle", "done", "failed"}
    /\ unlocker' = RestAfter(unlocker)
    /\ UNCHANGED <<pvars, svars>>

\* the ledger commits the unlock transactions that were broadcast: their time
\* lock cells are consumed
CommitUnlock ==
    /\ unlocker.pc = "idle"
    /\ unlocker.pending # {}
    /\ unlocker' = [unlocker EXCEPT !.spent = @ \cup unlocker.pending,
                                    !.pending = {}, !.prev = <<>>]
    /\ UNCHANGED <<pvars, svars>>

UnlockNext ==
    \/ StartGetNextBatchLockCell
    \/ StartUnlockCells
    \/ GetBlockchainInfo
    \/ ScanCell
    \/ BuildSpentTxs
    \/ SendUnlockTxs
    \/ \E ok \in SUBSET (1..2) : SendUnlockTxFail(ok)
    \/ TakeUnlockResult
    \/ CrashUnlocker
    \/ CommitUnlock

UnlockSpec == UnlockInit /\ [][UnlockNext]_vars

\* ---------------------------------------------------------------------------
\* The transaction queue (TransactionManager): settlement jobs keyed by the
\* Bitcoin txid, a pool of workers, retries with a delay
\* ---------------------------------------------------------------------------

\* the raw settlement transactions submitted
Payloads == {"ckbRawTx1", "ckbRawTx2"}

\* the delay a job is enqueued with (the configured one), in clock ticks
Delays == {TRANSACTION_QUEUE_JOB_DELAY}

\* the steps of one processing attempt, in their order
Steps ==
    <<"verifyTransaction", "appendCellAndSignTx", "sendTransaction", "markPaymasterCellAsSpent">>

\* an order that broadcasts before the fee cell is appended and signed
StepOrder_sendFirst ==
    <<"verifyTransaction", "sendTransaction", "appendCellAndSignTx", "markPaymasterCellAsSpent">>

StepOrder == Steps

NewJob(p, d) ==
    [NoJob EXCEPT !.state = "waiting", !.payload = p, !.delay = d, !.wait = d]

\* an add that overwrites the job of the same id
AddJob_replace(jobs, t, p, d) == [jobs EXCEPT ![t] = NewJob(p, d)]

\* the job id is the token: adding a job whose id exists changes nothing
AddJob(jobs, t, p, d) ==
    IF jobs[t].state # "none" THEN jobs ELSE [jobs EXCEPT ![t] = NewJob(p, d)]

NoLast == [op |-> "", token |-> NoToken]

\* enqueue(token, payload, delay) (last: what the call did, for its caller)
Enqueue(t, p, d) ==
    /\ txq.last = NoLast
    /\ txq' = [txq EXCEPT
                  !.jobs = AddJob(@, t, p, d),
                  !.last = [op |-> IF txq.jobs[t].state # "none" THEN "dup" ELSE "add",
                            token |-> t]]
    /\ UNCHANGED <<pvars, unlocker, cron, client>>

\* the store schedules a job that was added: waiting -> delayed
Schedule(t) ==
    /\ txq.last = NoLast
    /\ txq.jobs[t].state = "waiting"
    /\ txq' = [txq EXCEPT !.jobs[t].state = "delayed"]
    /\ UNCHANGED <<pvars, unlocker, cron, client>>

\* a store that hands out a job the moment it is scheduled
Due_atOnce(j) == TRUE

\* delay-until has passed
Due(j) == j.wait = 0

\* a store that also hands out a job that was not scheduled yet
Claimable_waiting(j) == j.state \in {"waiting", "delayed"}

Claimable(j) == j.state = "delayed"

\* a claim that leaves the job where it was
Claimed_peek(j) == [j EXCEPT !.started = @ + 1]

\* the store's atomic claim: the job is active from here on
Claimed(j) == [j EXCEPT !.state = "active", !.started = @ + 1]

\* worker w receives job t from the store and begins an attempt
ClaimJob(w, t) ==
    /\ txq.last = NoLast
    /\ txq.work[w].pc = "idle"
    /\ Claimable(txq.jobs[t]) /\ Due(txq.jobs[t])
    /\ txq.jobs[t].started <= TRANSACTION_QUEUE_JOB_ATTEMPTS   \* (cap of the counter)
    /\ txq' = [txq EXCEPT
                  !.jobs[t] = Claimed(@),
                  !.work[w] = [IdleWorker EXCEPT !.pc = "active", !.token = t]]
    /\ UNCHANGED <<pvars, unlocker, cron, client>>

\* a ceiling that lets one more attempt through
Exhausted_late(attempts) == attempts > TRANSACTION_QUEUE_JOB_ATTEMPTS

\* the attempt ceiling is reached
Exhausted(attempts) == attempts >= TRANSACTION_QUEUE_JOB_ATTEMPTS

\* the next step of worker w's attempt succeeds; after the last one the job is
\* completed
ProcessStep(w) ==
    /\ txq.last = NoLast
    /\ txq.work[w].pc = "active"
    /\ LET k == Len(txq.work[w].log) + 1
           t == txq.work[w].token
       IN txq' = [txq EXCEPT
                     !.work[w].log = Append(@, StepOrder[k]),
                     !.work[w].pc = IF k = Len(StepOrder) THEN "completed" ELSE @,
                     !.jobs[t].state = IF k = Len(StepOrder) THEN "completed" ELSE @]
    /\ UNCHANGED <<pvars, unlocker, cron, client>>

\* the next step of worker w's attempt fails: the attempt count goes up and
\* the job is delayed again, or failed for good at the ceiling
ProcessFail(w) ==
    /\ txq.last = NoLast
    /\ txq.work[w].pc = "active"
    /\ LET k == Len(txq.work[w].log) + 1
           t == txq.work[w].token
           n == txq.jobs[t].attempts + 1
       IN txq' = [txq EXCEPT
                     !.work[w].failedAt = StepOrder[k],
                     !.work[w].pc = "failed",
                     !.jobs[t].attempts = n,
                     !.jobs[t].state = IF Exhausted(n) THEN "failed" ELSE "delayed",
                     !.jobs[t].wait = IF Exhausted(n) THEN 0 ELSE Backoff]
    /\ UNCHANGED <<pvars, unlocker, cron, client>>

\* worker w is done with its attempt and ready for the next job
WorkerFree(w) ==
    /\ txq.last = NoLast
    /\ txq.work[w].pc \in {"completed", "failed"}
    /\ txq' = [txq EXCEPT !.work[w] = IdleWorker]
    /\ UNCHANGED <<pvars, unlocker, cron, client>>

\* one clock tick: every pending delay is one tick shorter (age: history, the
\* ticks between the submission of a job and its first attempt)
Ticked(j) ==
    IF j.state \in {"waiting", "delayed"}
    THEN [j EXCEPT !.wait = IF @ > 0 THEN @ - 1 ELSE 0,
                   !.age = IF j.started = 0 /\ @ < TRANSACTION_QUEUE_JOB_DELAY
                           THEN @ + 1 ELSE @]
    ELSE j

TxqTick ==
    /\ txq.last = NoLast
    /\ \E t \in Tokens : Ticked(txq.jobs[t]) # txq.jobs[t]
    /\ txq' = [txq EXCEPT !.jobs = [t \in Tokens |-> Ticked(txq.jobs[t])]]
    /\ UNCHANGED <<pvars, unlocker, cron, client>>

\* the caller of enqueue goes on
EnqueueReturns ==
    /\ txq.last # NoLast
    /\ txq' = [txq EXCEPT !.last = NoLast]
    /\ UNCHANGED <<pvars, unlocker, cron, client>>

TxqInit ==
    /\ PaymasterInit
    /\ unlocker = UnlockerAtRest(<<>>, 0)
    /\ ServicesAtRest

TxqNext ==
    \/ \E t \in Tokens, p \in Payloads, d \in Delays : Enqueue(t, p, d)
    \/ \E t \in Tokens : Schedule(t)
    \/ \E w \in Workers, t \in Tokens : ClaimJob(w, t)
    \/ \E w \in Workers : ProcessStep(w)
    \/ \E w \in Workers : ProcessFail(w)
    \/ \E w \in Workers : WorkerFree(w)
    \/ TxqTick
    \/ EnqueueReturns

TxqSpec == TxqInit /\ [][TxqNext]_vars

\* ---------------------------------------------------------------------------
\* The cron handler api/cron/process-transactions
\* ---------------------------------------------------------------------------

\* config.functions['api/cron/*.ts'].maxDuration, and the unit the number in
\* vercel.json is in: the handler takes it for milliseconds
Durations == {MaxDuration - 1, MaxDuration}
Units == {"ms", "s"}

\* setTimeout(resolve, VERCEL_MAX_DURATION - 10_000): the delay in ticks; a
\* number of seconds minus 10000 is negative, and the timer fires at once
TimerDelay(c) == IF c.unit = "s" THEN 0 ELSE c.maxDuration - Margin

\* the handler goes on when both promises have settled
RaceSettled_all(c) == c.startProcess = "resolved" /\ c.timer = "fired"

\* Promise.race([...]) is fulfilled: startProcess resolved or the timer fired
RaceSettled(c) == c.startProcess = "resolved" \/ c.timer = "fired"

\* the handler past `await Promise.race`: it calls pauseProcess()
Resume(c, by) ==
    IF c.pc = "race" /\ RaceSettled(c)
    THEN [c EXCEPT !.pc = "pauseProcess", !.pauseProcess = "pending",
                   !.settledBy = by, !.pausedAt = c.elapsed]
    ELSE c

CronInit ==
    /\ PaymasterInit
    /\ unlocker = UnlockerAtRest(<<>>, 0)
    /\ txq = TxqAtRest
    /\ client = ClientAtRest
    /\ cron \in {CronAtRest(d, u) : d \in Durations, u \in Units}

\* the handler is invoked: startProcess(...) is called and the timer is set
InvokeHandler ==
    /\ cron.pc = "idle"
    /\ cron' = [cron EXCEPT !.pc = "race", !.startProcess = "pending",
                            !.timer = "armed", !.delay = TimerDelay(cron)]
    /\ UNCHANGED <<pvars, unlocker, txq, client>>

\* the promise of startProcess is fulfilled
StartProcessResolves ==
    /\ cron.startProcess = "pending"
    /\ cron' = Resume([cron EXCEPT !.startProcess = "resolved"], "startProcess")
    /\ UNCHANGED <<pvars, unlocker, txq, client>>

\* the promise of startProcess is rejected: the race is rejected and the
\* handler throws
StartProcessRejects ==
    /\ cron.startProcess = "pending"
    /\ cron' = [cron EXCEPT !.startProcess = "rejected",
                            !.pc = IF cron.pc = "race" THEN "threw" ELSE @]
    /\ UNCHANGED <<pvars, unlocker, txq, client>>

\* the timer's delay has run out
TimerFires ==
    /\ cron.timer = "armed" /\ cron.delay = 0
    /\ cron' = Resume([cron EXCEPT !.timer = "fired"], "timer")
    /\ UNCHANGED <<pvars, unlocker, txq, client>>

\* one clock tick while the handler runs; a timer that is due fires first
CronTick ==
    /\ cron.pc \in {"race", "pauseProcess", "closeProcess"}
    /\ ~(cron.timer = "armed" /\ cron.delay = 0)
    /\ cron.elapsed <= MaxDuration
    /\ cron' = [cron EXCEPT !.elapsed = @ + 1,
                            !.delay = IF @ > 0 THEN @ - 1 ELSE 0]
    /\ UNCHANGED <<pvars, unlocker, txq, client>>

\* onActive: a job became active while the workers run
OnActive ==
    /\ cron.startProcess = "pending" /\ cron.pauseProcess # "done"
    /\ cron.pc \in {"race", "pauseProcess"}
    /\ cron.active < MaxActive
    /\ cron' = [cron EXCEPT !.active = @ + 1]
    /\ UNCHANGED <<pvars, unlocker, txq, client>>

\* pauseProcess() is fulfilled: the handler calls closeProcess()
PauseProcessResolves ==
    /\ cron.pc = "pauseProcess"
    /\ cron' = [cron EXCEPT !.pauseProcess = "done", !.pc = "closeProcess",
                            !.closeProcess = "pending"]
    /\ UNCHANGED <<pvars, unlocker, txq, client>>

\* pauseProcess() is rejected: the handler throws
PauseProcessRejects ==
    /\ cron.pc = "pauseProcess"
    /\ cron' = [cron EXCEPT !.pauseProcess = "rejected", !.pc = "threw"]
    /\ UNCHANGED <<pvars, unlocker, txq, client>>

\* closeProcess() is fulfilled: the handler returns
CloseProcessResolves ==
    /\ cron.pc = "closeProcess"
    /\ cron' = [cron EXCEPT !.closeProcess = "done", !.pc = "returned"]
    /\ UNCHANGED <<pvars, unlocker, txq, client>>

\* closeProcess() is rejected: the handler throws
CloseProcessRejects ==
    /\ cron.pc = "closeProcess"
    /\ cron' = [cron EXCEPT !.closeProcess = "rejected", !.pc = "threw"]
    /\ UNCHANGED <<pvars, unlocker, txq, client>>

CronNext ==
    \/ InvokeHandler
    \/ StartProcessResolves
    \/ StartProcessRejects
    \/ TimerFires
    \/ CronTick
    \/ OnActive
    \/ PauseProcessResolves
    \/ PauseProcessRejects
    \/ CloseProcessResolves
    \/ CloseProcessRejects

CronSpec == CronInit /\ [][CronNext]_vars

\* ---------------------------------------------------------------------------
\* The CKB client: sendTransaction with CKBRpcError, waitForTranscationConfirmed
\* ---------------------------------------------------------------------------

\* CKBRPCErrorCodes
TransactionFailedToResolve == -301
PoolRejectedDuplicatedTransaction == -1107

\* a member of a JSON object: absent, a number or a string
Absent == [t |-> "absent", n |-> 0, s |-> ""]
Num(n) == [t |-> "number", n |-> n, s |-> ""]
Str(x) == [t |-> "string", n |-> 0, s |-> x]

\* JSON values: objects with the members code, message and data, and values
\* that are no objects
JsonObjects ==
    {[t |-> "object", code |-> c, message |-> m, data |-> d] :
        c \in {Absent, Num(PoolRejectedDuplicatedTransaction),
               Num(TransactionFailedToResolve), Str("-1107")},
        m \in {Absent, Str("PoolRejectedDuplicatedTransaction"), Num(0)},
        d \in {Absent, Str("0x")}}

JsonScalars ==
    {[t |-> k, code |-> Absent, message |-> Absent, data |-> Absent] :
        k \in {"number", "string", "null", "array"}}

NoJson == [t |-> "none", code |-> Absent, message |-> Absent, data |-> Absent]

\* strings: the text of a JSON value, or a text that is no JSON
Plain(x) == [json |-> FALSE, text |-> x, value |-> NoJson]
JsonText(v) == [json |-> TRUE, text |-> "", value |-> v]

Messages ==
    {JsonText(v) : v \in JsonObjects \cup JsonScalars}
        \cup {Plain("connect ECONNREFUSED"), Plain("")}

\* what sendCkbTx may throw: an Error with a message and a stack, or a value
\* that is no Error
Errors ==
    {[name |-> "Error", isError |-> TRUE, code |-> <<>>, message |-> m, stack |-> "sendCkbTx"] :
        m \in Messages}

NonErrors ==
    {[name |-> "", isError |-> FALSE, code |-> <<>>, message |-> m, stack |-> ""] :
        m \in {Plain("timeout"), JsonText(CHOOSE v \in JsonObjects :
                   v.code = Num(PoolRejectedDuplicatedTransaction)
                   /\ v.message = Str("PoolRejectedDuplicatedTransaction")
                   /\ v.data = Absent)}}

\* JSON.parse(message): the value, or a SyntaxError
JSONparse(m) == [ok |-> m.json, value |-> m.value]

\* a schema that takes any object
safeParse_anyObject(v) ==
    [success |-> v.t = "object", code |-> v.code.n, message |-> v.message.s]

\* messageSchema.safeParse(error), z.object({code: z.number(), message: z.string()})
safeParse(v) ==
    [success |-> v.t = "object" /\ v.code.t = "number" /\ v.message.t = "string",
     code |-> v.code.n, message |-> v.message.s]

\* new CKBRpcError(message) (code: <<>> is undefined; captured: the exception
\* of JSON.parse went to Sentry)
CKBRpcError(m) ==
    LET error == JSONparse(m)
        parsed == safeParse(error.value)
    IN [name |-> "CKBRpcError", isError |-> TRUE,
        code |-> IF error.ok /\ parsed.success THEN <<parsed.code>> ELSE <<>>,
        message |-> IF error.ok /\ parsed.success THEN Plain(parsed.message) ELSE m,
        stack |-> "",
        captured |-> ~error.ok]

\* the catch clause of sendTransaction: what it throws for the value caught
Rethrow(err) ==
    IF err.isError
    THEN [name |-> "CKBRpcError", isError |-> TRUE,
          code |-> CKBRpcError(err.message).code,
          message |-> CKBRpcError(err.message).message,
          stack |-> err.stack]
    ELSE err

ClientInit ==
    /\ PaymasterInit
    /\ unlocker = UnlockerAtRest(<<>>, 0)
    /\ txq = TxqAtRest
    /\ cron = CronAtRest(0, "ms")
    /\ client = ClientAtRest

\* sendTransaction(signedTx) is called
StartSendTransaction ==
    /\ client.pc = "idle"
    /\ client' = [client EXCEPT !.op = "sendTransaction", !.pc = "sendCkbTx"]
    /\ UNCHANGED <<pvars, unlocker, txq, cron>>

\* sendCkbTx returns the transaction hash
SendCkbTxReturns ==
    /\ client.pc = "sendCkbTx"
    /\ client' = [client EXCEPT !.pc = "returned"]
    /\ UNCHANGED <<pvars, unlocker, txq, cron>>

\* sendCkbTx throws: sendTransaction throws in turn
SendCkbTxThrows(err) ==
    /\ client.pc = "sendCkbTx"
    /\ client' = [client EXCEPT !.pc = "threw", !.thrown = <<err>>,
                                !.error = <<Rethrow(err)>>,
                                !.captured = err.isError /\ CKBRpcError(err.message).captured]
    /\ UNCHANGED <<pvars, unlocker, txq, cron>>

\* the transaction statuses of rpc.getTransaction
Statuses == {"pending", "proposed", "committed", "unknown", "rejected"}

\* the transaction hashes waited for
TxHashes == {"0xaa", "0xbb"}

\* a test that also takes a proposed transaction for confirmed
Committed_orProposed(status) == status \in {"committed", "proposed"}

\* status === 'committed'
Committed(status) == status = "committed"

\* waitForTranscationConfirmed(txHash) is called
StartWaitForTranscationConfirmed(txHash) ==
    /\ client.pc = "idle"
    /\ client' = [client EXCEPT !.op = "waitForTranscationConfirmed",
                                !.pc = "getTransaction", !.txHash = txHash]
    /\ UNCHANGED <<pvars, unlocker, txq, cron>>

\* the calls of getTransaction so far, counted up to MaxPolls
Counted(n) == IF n < MaxPolls THEN n + 1 ELSE n

\* rpc.getTransaction returns: resolve on committed, else a timer of a second
GetTransactionReturns(status) ==
    /\ client.pc = "getTransaction"
    /\ client' = [client EXCEPT !.status = status, !.polls = Counted(@),
                                !.pc = IF Committed(status) THEN "settled"
                                       ELSE "setTimeout",
                                !.resolved = IF Committed(status)
                                             THEN <<client.txHash>> ELSE @]
    /\ UNCHANGED <<pvars, unlocker, txq, cron>>

\* rpc.getTransaction throws: the exception goes to Sentry, a timer of a second
GetTransactionThrows ==
    /\ client.pc = "getTransaction"
    /\ client' = [client EXCEPT !.status = "", !.polls = Counted(@),
                                !.rpcFails = Counted(@), !.captured = TRUE,
                                !.pc = "setTimeout"]
    /\ UNCHANGED <<pvars, unlocker, txq, cron>>

\* the timer fires: waitForTranscationConfirmed(txHash) is called again, and
\* the promise follows the new one
PollTimerFires ==
    /\ client.pc = "setTimeout"
    /\ client' = [client EXCEPT !.pc = "getTransaction"]
    /\ UNCHANGED <<pvars, unlocker, txq, cron>>

\* the caller has the outcome of its call
ClientTakeResult ==
    /\ client.pc \in {"returned", "threw", "settled"}
    /\ client' = ClientAtRest
    /\ UNCHANGED <<pvars, unlocker, txq, cron>>

\* a step of the polling
PollStep ==
    \/ \E status \in Statuses : GetTransactionReturns(status)
    \/ GetTransactionThrows
    \/ PollTimerFires

ClientNext ==
    \/ StartSendTransaction
    \/ SendCkbTxReturns
    \/ \E err \in Errors \cup NonErrors : SendCkbTxThrows(err)
    \/ \E txHash \in TxHashes : StartWaitForTranscationConfirmed(txHash)
    \/ \E status \in Statuses : GetTransactionReturns(status)
    \/ GetTransactionThrows
    \/ PollTimerFires
    \/ ClientTakeResult

ClientSpec == ClientInit /\ [][ClientNext]_vars

\* the RPC answers, timers fire and results are taken
FairClientSpec ==
    ClientSpec /\ WF_vars(PollStep) /\ WF_vars(ClientTakeResult)

TypeOK ==
    /\ chain \in [Outpoints -> {"live", "dead"}]
    /\ queue.ids \subseteq Outpoints
    /\ refilling \in [Instances -> BOOLEAN]
    /\ retired \subseteq Outpoints
    /\ unlocker.cells \in CellLists

\* ---------------------------------------------------------------------------
\* Properties
\* ---------------------------------------------------------------------------

LeaseResult == ret.op \in {"getNextCellJob", "appendCellAndSignTx"}

InRefill(s) == call[s].pc \in {"queueSize", "collect"}

\* C1: no fee-cell outpoint is held as an active lease by two tokens at the
\* same time, whatever the interleaving of the calls and whichever process
\* instance issues them.
C1_NoDoubleLease ==
    \A o \in Outpoints : Cardinality({t \in Tokens : <<t, o>> \in leases}) <= 1

\* two tokens hold leases at once while another call is about to fetch
C1_Witness ==
    \E t1, t2 \in Tokens, o1, o2 \in Outpoints :
        /\ t1 # t2 /\ o1 # o2
        /\ {<<t1, o1>>, <<t2, o2>>} \subseteq leases
        /\ \E s \in Slots : call[s].pc = "getNextJob"

\* C2: once makePaymasterCellAsSpent has retired an outpoint, no later
\* getNextCellJob returns a job with it, and it is never waiting or active
\* again, also when a refill re-scans it while the chain still reports it live.
C2_SpentNeverReused ==
    /\ (LeaseResult /\ ret.job # None) => ret.job \notin retired
    /\ \A o \in retired : o \notin SeqToSet(queue.wait) /\ o \notin queue.active

\* a refill has just re-scanned a retired outpoint that the chain still reports
C2_Witness ==
    \E s \in Slots :
        /\ call[s].pc = "collect"
        /\ call[s].cursor \in retired
        /\ chain[call[s].cursor] = "live"
        /\ call[s].dup >= 1

\* C3: repeated lease attempts for one token never lease two distinct fee cells
\* for it.
C3_OneLeasePerToken ==
    \A t \in Tokens : Cardinality({o \in Outpoints : <<t, o>> \in leases}) <= 1

\* C4: a leased cell eventually returns to the waiting state unless
\* makePaymasterCellAsSpent is called; it does not stay leased forever.
C4_LeaseExpires ==
    \A o \in Outpoints :
        (o \in queue.active)
            ~> \/ o \in SeqToSet(queue.wait)
               \/ o \in retired
               \/ ret.op = "makePaymasterCellAsSpent"

\* C5: refills, one after the other or concurrent, leave at most one pool job
\* per outpoint, and the pass of a refill over an outpoint that already has a
\* job does not change the pool.
NoDupJobs ==
    /\ \A i, j \in 1..Len(queue.wait) : queue.wait[i] = queue.wait[j] => i = j
    /\ SeqToSet(queue.wait) \cap queue.active = {}
    /\ SeqToSet(queue.wait) \cap queue.completed = {}
    /\ queue.active \cap queue.completed = {}

RescanNoOp ==
    \A s \in Slots :
        (/\ call[s].pc = "collect"
         /\ call'[s] # call[s]
         /\ NextCell(chain, call[s].cursor) \in queue.ids) => queue' = queue

C5_RefillIdempotent == [][RescanNoOp /\ NoDupJobs']_vars

\* a refill has passed over an outpoint that already had a job
C5_Witness ==
    \E s \in Slots : call[s].pc = "collect" /\ call[s].dup >= 1 /\ call[s].cursor \in queue.ids

\* C6: within one Paymaster instance at most one refillCellQueue call made by
\* getNextCellJob is in flight at any time.
C6_SingleRefillInFlight ==
    \A i \in Instances :
        Cardinality({s \in Slots : /\ call[s].op = "getNextCellJob"
                                   /\ call[s].inst = i
                                   /\ InRefill(s)}) <= 1

\* C7: when no cell is available to lease, getNextCellJob fails with
\* PaymasterCellNotEnoughError; it returns no empty lease and
\* appendCellAndSignTx fails with no other error.
C7_ExhaustionThrows ==
    (LeaseResult /\ ret.job = None /\ ret.err # "RpcError")
        => ret.err = "PaymasterCellNotEnoughError"

\* C8: getNextCellJob calls refillCellQueue before leasing exactly when no
\* refill is in flight in its instance and the waiting count is strictly below
\* presetCount x refillThreshold.
RefillInFlight(i) ==
    \E x \in Slots : call[x].op = "getNextCellJob" /\ call[x].inst = i /\ InRefill(x)

C8_RefillExactlyWhenNeeded ==
    [][\A s \in Slots :
          (/\ call[s].pc \in {"idle", "getWaitingCount"}
           /\ call'[s].op = "getNextCellJob"
           /\ call'[s].pc \in {"queueSize", "getNextJob"})
          => ((call'[s].pc = "queueSize") <=>
                 (/\ ~RefillInFlight(call'[s].inst)
                  /\ NeedRefill(getWaitingCount(queue))))]_vars

\* C9: when refillCellQueue returns, with no other call in progress meanwhile,
\* the waiting count is at least presetCount or every live matching cell has a
\* job in the pool.
C9_RefillFillsOrExhausts ==
    (ret.op = "refillCellQueue" /\ ret.err = "")
        => \/ getWaitingCount(queue) >= presetCount
           \/ \A o \in Outpoints : chain[o] = "live" => o \in queue.ids

C11_ShortFillWarnsOnly ==
    [][\A s \in Slots :
          (/\ call[s].op = "getNextCellJob"
           /\ InRefill(s)
           /\ call'[s] # call[s]
           /\ ret'.op = "refillCellQueue")
          => /\ ret'.nested /\ ret'.err = ""
             /\ ret'.warned <=> (ret'.filled + ret'.count < presetCount)
             /\ ~refilling'[call[s].inst]
             /\ call'[s].op = "getNextCellJob" /\ call'[s].pc = "getNextJob"]_vars

\* a refill inside getNextCellJob has just come back short, with the warning,
\* and the call stands at its lease step
C11_Witness ==
    /\ ret.op = "refillCellQueue" /\ ret.nested /\ ret.warned
    /\ ret.filled + ret.count < presetCount
    /\ \E s \in Slots : call[s].op = "getNextCellJob" /\ call[s].pc = "getNextJob"

\* a step of makePaymasterCellAsSpent: it settles, or goes on to its next input
MarkSpentStep ==
    \/ ret'.op = "makePaymasterCellAsSpent"
    \/ \E s \in Slots : call'[s].op = "makePaymasterCellAsSpent" /\ call'[s] # call[s]

\* C12: a step of makePaymasterCellAsSpent changes the state of leased jobs
\* only, by retiring them: waiting jobs stay waiting, no job becomes leased,
\* and only a leased job is completed.
C12_SpentFrame ==
    [][MarkSpentStep
          => /\ queue'.wait = queue.wait
             /\ queue'.active \subseteq queue.active
             /\ queue'.completed \ queue.completed \subseteq queue.active]_vars

\* C13: a step that is not one of makePaymasterCellAsSpent never retires or
\* deletes a job: every job stays in the store, a waiting or leased job stays
\* waiting or leased, and nothing is completed.
C13_OnlySpentRetires ==
    [][~MarkSpentStep
          => /\ queue.ids \subseteq queue'.ids
             /\ queue'.completed = queue.completed
             /\ (SeqToSet(queue.wait) \cup queue.active)
                    \subseteq (SeqToSet(queue'.wait) \cup queue'.active)]_vars

\* appendCellAndSignTx has failed after leasing, and the job is still leased
C13_Witness ==
    /\ ret.op = "appendCellAndSignTx" /\ ret.err = "SignError"
    /\ ret.job \in queue.active /\ ret.job \notin retired

\* C14: makePaymasterCellAsSpent called a second time with the token and the
\* signedTx of a call that has just succeeded succeeds as well.
C14_SecondSpentSucceeds ==
    (ret.op = "makePaymasterCellAsSpent" /\ ret.repeat) => ret.err = ""

\* ---- the Unlocker ----

\* getNextBatchLockCell has returned its batch to its caller
BatchReturned == unlocker.pc \in {"done", "buildSpentTxs", "sendUnlockTx", "failed"}

BatchSet == SeqToSet(unlocker.batch)

Scanned == 1..unlocker.cursor

\* C15: a scanned live cell with a supported type is in the batch exactly when its
\* Bitcoin transaction is confirmed and tip - confirmedHeight >= after: with
\* the tip at 800000 and after = 6, confirmed at 799990 is in, confirmed at
\* 799996 is out, and an unconfirmed one is never in.
C15_ConfirmationDepth ==
    \A i \in Scanned \ unlocker.spent :
        LET c == unlocker.cells[i] IN
        /\ i \in BatchSet => (c.height # 0 /\ unlocker.tip - c.height >= c.after)
        /\ (c.type \in {"xudt", "spore"} /\ c.height # 0
               /\ unlocker.tip - c.height >= c.after) => i \in BatchSet
        /\ (c.after = 6 /\ c.height = 799996) => i \notin BatchSet
        /\ (c.type \in {"xudt", "spore"} /\ c.after = 6 /\ c.height = 799990)
              => i \in BatchSet

\* a batch was returned with the depth-10 cell in and the depth-4 cell and an
\* unconfirmed cell out
C15_Witness ==
    /\ BatchReturned /\ unlocker.tip = 800000
    /\ \E i, j, k \in Scanned :
          /\ unlocker.cells[i] = [type |-> "xudt", after |-> 6, height |-> 799990]
          /\ unlocker.cells[j] = [type |-> "xudt", after |-> 6, height |-> 799996]
          /\ unlocker.cells[k].height = 0 /\ unlocker.cells[k].type = "xudt"
          /\ i \in BatchSet /\ j \notin BatchSet /\ k \notin BatchSet

\* C16: unlockCells with no eligible cell returns an empty list, and has not
\* called buildSpentTxs, signed or broadcast anything.
C16_EmptyBatchNoOp ==
    (unlocker.op = "unlockCells" /\ BatchReturned /\ unlocker.batch = <<>>)
        => /\ unlocker.pc = "done" /\ unlocker.result = <<>>
           /\ ~unlocker.built /\ unlocker.txs = <<>>
           /\ unlocker.signed = 0 /\ unlocker.sent = 0

\* unlockCells has returned after scanning cells none of which was eligible
C16_Witness ==
    /\ unlocker.op = "unlockCells" /\ unlocker.pc = "done"
    /\ unlocker.batch = <<>> /\ unlocker.cursor = MaxCells

\* the eligible cells, in scan order
EligibleInOrder ==
    LET ok(i) == /\ i \notin unlocker.spent
                 /\ Admitted(unlocker.cells[i]) /\ Confirmed(unlocker.tip, unlocker.cells[i])
    IN SelectSeq([i \in 1..Len(unlocker.cells) |-> i], ok)

\* C17: the batch never holds more than UNLOCKER_CELL_BATCH_SIZE cells; the
\* batch returned is the first UNLOCKER_CELL_BATCH_SIZE eligible cells in scan
\* order (all of them if there are fewer), and the scan stopped at the cell
\* that filled it.
C17_BatchSizeBound ==
    /\ Len(unlocker.batch) <= UNLOCKER_CELL_BATCH_SIZE
    /\ BatchReturned =>
          /\ unlocker.batch =
                SubSeq(EligibleInOrder, 1,
                       IF Len(EligibleInOrder) < UNLOCKER_CELL_BATCH_SIZE
                       THEN Len(EligibleInOrder) ELSE UNLOCKER_CELL_BATCH_SIZE)
          /\ Len(unlocker.batch) = UNLOCKER_CELL_BATCH_SIZE
                => unlocker.cursor = unlocker.batch[UNLOCKER_CELL_BATCH_SIZE]

\* a full batch was returned while a further eligible cell was left unscanned
C17_Witness ==
    /\ BatchReturned
    /\ Len(unlocker.batch) = UNLOCKER_CELL_BATCH_SIZE
    /\ Len(EligibleInOrder) > UNLOCKER_CELL_BATCH_SIZE
    /\ unlocker.cursor < Len(unlocker.cells)

\* buildSpentTxs has returned
TxsBuilt == unlocker.pc \in {"sendUnlockTx", "failed"} \/ (unlocker.pc = "done" /\ unlocker.built)

UdtInBatch == {i \in BatchSet : unlocker.cells[i].type = "xudt"}

SporeInBatch == {i \in BatchSet : unlocker.cells[i].type = "spore"}

\* C18: buildSpentTxs yields one transaction for the UDT cells of the batch if
\* there are any and one for the spore / cluster cells if there are any, and
\* no transaction without cells: at most two in all.
C18_OneTxPerPartition ==
    TxsBuilt =>
        /\ Len(unlocker.txs) = (IF UdtInBatch # {} THEN 1 ELSE 0)
                                 + (IF SporeInBatch # {} THEN 1 ELSE 0)
        /\ Len(unlocker.txs) <= 2
        /\ \A k \in 1..Len(unlocker.txs) : unlocker.txs[k].cells # <<>>
        /\ \A k, l \in 1..Len(unlocker.txs) :
              unlocker.txs[k].kind = unlocker.txs[l].kind => k = l

\* a batch with UDT cells only gave a single transaction
C18_Witness ==
    /\ unlocker.pc = "sendUnlockTx"
    /\ Len(unlocker.txs) = 1 /\ SporeInBatch = {} /\ Len(unlocker.batch) = 2

\* C19: every cell of the batch is an input of exactly one of the transactions
\* built for it.
C19_EveryCellInOneTx ==
    TxsBuilt =>
        \A i \in BatchSet :
            Cardinality({k \in 1..Len(unlocker.txs) :
                            i \in SeqToSet(unlocker.txs[k].cells)}) = 1

\* a batch with a UDT cell and a spore cell gave two transactions, after the
\* scan passed over a cell with an unsupported type
C19_Witness ==
    /\ unlocker.pc = "sendUnlockTx"
    /\ Len(unlocker.txs) = 2
    /\ \E i \in Scanned : unlocker.cells[i].type = "other" /\ i \notin BatchSet

\* C20: an eligible live cell with `after` below BTC_JUMP_CONFIRMATION_BLOCKS is in
\* the batch like any other eligible cell, and is warned about; the warning
\* touches nothing else.
C20_SmallAfterReturned ==
    /\ \A i \in Scanned \ unlocker.spent :
          LET c == unlocker.cells[i] IN
          (Admitted(c) /\ Confirmed(unlocker.tip, c) /\ c.after < BTC_JUMP_CONFIRMATION_BLOCKS)
              => (i \in BatchSet /\ i \in unlocker.warned)
    /\ unlocker.warned = {i \in BatchSet : unlocker.cells[i].after < BTC_JUMP_CONFIRMATION_BLOCKS}
    /\ BatchReturned =>
          unlocker.batch =
             SubSeq(EligibleInOrder, 1,
                    IF Len(EligibleInOrder) < UNLOCKER_CELL_BATCH_SIZE
                    THEN Len(EligibleInOrder) ELSE UNLOCKER_CELL_BATCH_SIZE)

\* a batch was returned with a cell the scan warned about and one it did not
C20_Witness ==
    /\ BatchReturned
    /\ \E i, j \in BatchSet :
          /\ i \in unlocker.warned /\ unlocker.cells[i].after = 2
          /\ j \notin unlocker.warned /\ unlocker.cells[j].after = 6

InFlight(t) == {w \in Workers : txq.work[w].pc = "active" /\ txq.work[w].token = t}

\* C22: a job is never processed more than TRANSACTION_QUEUE_JOB_ATTEMPTS
\* times, and a job in the terminal state failed was processed exactly that
\* many times, each of them a failure.
C22_BoundedRetry ==
    \A t \in Tokens :
        /\ txq.jobs[t].started <= TRANSACTION_QUEUE_JOB_ATTEMPTS
        /\ txq.jobs[t].state = "failed" =>
              /\ txq.jobs[t].started = TRANSACTION_QUEUE_JOB_ATTEMPTS
              /\ txq.jobs[t].attempts = TRANSACTION_QUEUE_JOB_ATTEMPTS
              /\ InFlight(t) = {}

\* a job failed for good after the last of its attempts
C22_Witness ==
    \E t \in Tokens :
        /\ txq.jobs[t].state = "failed"
        /\ txq.jobs[t].started = TRANSACTION_QUEUE_JOB_ATTEMPTS

JobTransitions ==
    {<<"none", "waiting">>, <<"waiting", "delayed">>, <<"delayed", "active">>,
     <<"active", "completed">>, <<"active", "failed">>, <<"active", "delayed">>}

\* C23: a job changes state only along waiting -> delayed -> active ->
\* completed | failed, or active -> delayed after a failure; nothing leaves
\* completed or failed; a job becomes failed only with its attempt count at the
\* ceiling, and is delayed again only below it.
C23_JobStateMachine ==
    [][\A t \in Tokens :
          txq'.jobs[t].state # txq.jobs[t].state =>
             /\ <<txq.jobs[t].state, txq'.jobs[t].state>> \in JobTransitions
             /\ txq'.jobs[t].state = "failed"
                   => txq'.jobs[t].attempts = TRANSACTION_QUEUE_JOB_ATTEMPTS
             /\ txq.jobs[t].state = "active" /\ txq'.jobs[t].state = "delayed"
                   => txq'.jobs[t].attempts < TRANSACTION_QUEUE_JOB_ATTEMPTS]_vars

\* one job was completed on a retry while another failed for good
C23_Witness ==
    \E t, u \in Tokens :
        /\ txq.jobs[t].state = "completed" /\ txq.jobs[t].attempts >= 1
        /\ txq.jobs[u].state = "failed"

IsPrefix(a, b) == Len(a) <= Len(b) /\ a = SubSeq(b, 1, Len(a))

\* C24: the steps of an attempt are taken in the order verify, append and
\* sign, broadcast, mark spent: the broadcast never comes before the fee cell
\* was appended and signed (once), the cell is never marked spent in an
\* attempt whose broadcast did not succeed, and the job is completed exactly
\* when all four steps succeeded.
C24_AttemptOrder ==
    \A w \in Workers :
        LET a == txq.work[w] IN
        /\ IsPrefix(a.log, Steps)
        /\ a.pc = "completed" <=> a.log = Steps
        /\ a.pc = "completed" => txq.jobs[a.token].state = "completed"
        /\ a.failedAt \in {"verifyTransaction", "appendCellAndSignTx", "sendTransaction"}
              => "markPaymasterCellAsSpent" \notin SeqToSet(a.log)

\* an attempt has ended at a failed broadcast, after the fee cell was appended
\* and signed, while another attempt went through all four steps
C24_Witness ==
    \E w, x \in Workers :
        /\ txq.work[w].failedAt = "sendTransaction"
        /\ txq.work[w].log = <<"verifyTransaction", "appendCellAndSignTx">>
        /\ txq.work[x].pc = "completed"

\* C25: no token has more than one processing attempt in flight, however many
\* workers are free, and a token with an attempt in flight has its job active.
C25_OneAttemptPerToken ==
    \A t \in Tokens :
        /\ Cardinality(InFlight(t)) <= 1
        /\ InFlight(t) # {} => txq.jobs[t].state = "active"

\* two workers have attempts in flight at once, for two tokens
C25_Witness ==
    \E w, x \in Workers :
        /\ txq.work[w].pc = "active" /\ txq.work[x].pc = "active"
        /\ txq.work[w].token # txq.work[x].token

\* C26: enqueuing under an id that has a job changes no job: its payload, its
\* attempt count, its delay and its state stay as they were.
C26_EnqueueIdempotent ==
    [][txq'.last.op = "dup" => txq'.jobs = txq.jobs]_vars

\* a token that had been through a failed attempt was enqueued again
C26_Witness ==
    /\ txq.last.op = "dup"
    /\ txq.jobs[txq.last.token].attempts >= 1

\* C27: a job that has become active was submitted at least its delay before.
C27_NotBeforeDelay ==
    \A t \in Tokens : txq.jobs[t].started >= 1 => txq.jobs[t].age >= txq.jobs[t].delay

\* a job with the configured delay has become active
C27_Witness ==
    \E t \in Tokens :
        /\ txq.jobs[t].started >= 1
        /\ txq.jobs[t].delay = TRANSACTION_QUEUE_JOB_DELAY

\* C28: pauseProcess is called only when startProcess has resolved or the
\* timer has fired, closeProcess only when pauseProcess has completed;
\* pauseProcess is called no later than maxDuration less the margin after the
\* invocation, and the handler is not waiting on the race beyond that time.
C28_PauseThenClose ==
    /\ cron.pauseProcess # "none" =>
          /\ cron.settledBy = "startProcess" => cron.startProcess = "resolved"
          /\ cron.settledBy = "timer" => cron.timer = "fired"
          /\ cron.settledBy \in {"startProcess", "timer"}
          /\ cron.pausedAt <= cron.maxDuration - Margin
    /\ cron.closeProcess # "none" => cron.pauseProcess = "done"
    /\ cron.elapsed > cron.maxDuration - Margin => cron.pc # "race"

\* the handler returned after the timer, set for the milliseconds of
\* maxDuration, ended the race with startProcess still pending
C28_Witness ==
    /\ cron.pc = "returned" /\ cron.settledBy = "timer" /\ cron.unit = "ms"
    /\ cron.startProcess = "pending"
    /\ cron.pausedAt = cron.maxDuration - Margin

\* the JSON objects of the form {code, message}
WellFormed(m) ==
    m.json /\ m.value.t = "object"
        /\ m.value.code.t = "number" /\ m.value.message.t = "string"

\* C29: when sendCkbTx throws an Error, sendTransaction throws a CKBRpcError
\* with the stack of the Error: with the code and the message of the JSON
\* object when the Error's message is JSON of the form {code, message}, with
\* the message as it was and no code otherwise; a value that is no Error is
\* thrown as it was caught.
C29_RpcErrorCarriesRemote ==
    client.pc = "threw" =>
        LET err == client.thrown[1]
            out == client.error[1]
        IN /\ Len(client.error) = 1
           /\ err.isError =>
                 /\ out.name = "CKBRpcError" /\ out.isError
                 /\ out.stack = err.stack
                 /\ WellFormed(err.message) =>
                       /\ out.code = <<err.message.value.code.n>>
                       /\ out.message = Plain(err.message.value.message.s)
                 /\ ~WellFormed(err.message) =>
                       /\ out.code = <<>>
                       /\ out.message = err.message
           /\ ~err.isError => out = err

\* sendTransaction has thrown a CKBRpcError with the remote code -1107 taken
\* from a JSON message that carried a further member
C29_Witness ==
    /\ client.pc = "threw" /\ client.thrown[1].isError
    /\ client.thrown[1].message.value.data # Absent
    /\ client.error[1].code = <<PoolRejectedDuplicatedTransaction>>
    /\ client.error[1].message = Plain("PoolRejectedDuplicatedTransaction")

\* C30: every call of waitForTranscationConfirmed settles.
C30_PollingSettles ==
    (client.op = "waitForTranscationConfirmed") ~> (client.pc = "settled")

Waiting == client.op = "waitForTranscationConfirmed"

\* C31: the promise of waitForTranscationConfirmed is resolved only in the
\* step in which getTransaction reported 'committed', and with the txHash it
\* was called with; a poll that reported another status or threw resolves and
\* rejects nothing and leaves a timer set, and the timer leads to the next
\* poll.
C31_ResolvesOnCommitted ==
    [][Waiting =>
          /\ client'.pc = "settled" =>
                /\ client.pc = "getTransaction"
                /\ client'.status = "committed"
                /\ client'.resolved = <<client.txHash>>
          /\ (client.pc = "getTransaction" /\ client'.pc # "settled") =>
                /\ client'.pc = "setTimeout"
                /\ client'.status # "committed"
                /\ client'.resolved = <<>>
          /\ client.pc = "setTimeout" =>
                client'.pc = "getTransaction" /\ client'.resolved = <<>>]_vars

\* the call was resolved with its txHash after polls that reported another
\* status and a poll that threw
C31_Witness ==
    /\ Waiting /\ client.pc = "settled"
    /\ client.resolved = <<client.txHash>>
    /\ client.polls >= 3 /\ client.rpcFails >= 1

C33_FlagClearedAfterRefill ==
    \A i \in Instances : ~RefillInFlight(i) => ~refilling[i]

\* C34: when the cron handler has returned or thrown, pauseProcess and then
\* closeProcess have been called, also when startProcess was rejected.
C34_AlwaysPausedAndClosed ==
    cron.pc \in {"returned", "threw"} =>
        /\ cron.pauseProcess # "none"
        /\ cron.closeProcess # "none"

\* C35: a run never selects, for building and submitting an unlock
\* transaction, a cell whose unlock transaction an earlier run has broadcast
\* and the ledger has not yet committed.
C35_PendingNotReselected ==
    unlocker.pc \in {"buildSpentTxs", "sendUnlockTx"} =>
        BatchSet \cap unlocker.pending = {}

\* C36: unlockCells resolves with one transaction hash for every transaction
\* built and all of them broadcast, or rejects with none of them broadcast.
C36_AllOrNothing ==
    /\ (unlocker.op = "unlockCells" /\ unlocker.pc = "done" /\ unlocker.built) =>
          /\ Len(unlocker.result) = Len(unlocker.txs)
          /\ unlocker.sent = Len(unlocker.txs)
    /\ (unlocker.op = "unlockCells" /\ unlocker.pc = "failed") => unlocker.sent = 0

\* C37: the number of waiting jobs never exceeds presetCount; a refill, in
\* progress or returned, has added at most presetCount minus the waiting count
\* it read at its start, and nothing when that count was at least presetCount.
C37_WaitingBounded ==
    /\ getWaitingCount(queue) <= presetCount
    /\ \A s \in Slots :
          call[s].pc = "collect" =>
             /\ call[s].queueSize < presetCount
             /\ call[s].added <= call[s].filled
             /\ call[s].filled < presetCount - call[s].queueSize
    /\ (ret.op = "refillCellQueue" /\ ret.err = "") =>
          /\ ret.added <= ret.filled
          /\ ret.queueSize < presetCount => ret.filled <= presetCount - ret.queueSize
          /\ ret.queueSize >= presetCount => ret.filled = 0

\* a refill that read an empty pool has added presetCount cells, stopped
\* there with live cells left on the ledger, and the pool is at presetCount
C37_Witness ==
    /\ ret.op = "refillCellQueue" /\ ret.err = ""
    /\ ret.queueSize = 0 /\ ret.added = presetCount
    /\ getWaitingCount(queue) = presetCount
    /\ \E o \in Outpoints : chain[o] = "live" /\ o \notin queue.ids
====
